---- MODULE Spec2Model ----
(***************************************************************************)
(* A model of the quick pick and command layer of vscode-gitlens:          *)
(*   - CommitFileDetailsQuickPick.show (src/quickPicks/commitFileDetails)  *)
(*   - DiffLineWithPreviousCommand.execute                                 *)
(* The git service, the keyboard and the editor host are collaborators:    *)
(* every answer they give is a nondeterministic input of the step that     *)
(* awaits it.                                                              *)
(***************************************************************************)
EXTENDS Integers, Sequences, FiniteSets, TLC

\* ------------------------------------------------------------------ bounds
MaxSha == 2        \* commit ids are 1..MaxSha
MaxLogLen == 1     \* commits held by one GitLog
MaxSelect == 2     \* the highlight moves among the first MaxSelect entries
MaxLine == 1       \* editor lines are 0..MaxLine

\* ------------------------------------------------------------------ values
Undefined == 0
Sha == 1..MaxSha
OptSha == Sha \cup {Undefined}
UncommittedSha == MaxSha + 1

isUncommitted(sha) == sha = UncommittedSha

FileName == "file.ts"
PreviousFileName == "old.ts"
WorkingFileName == "working.ts"

\* A GitLog: commits is the insertion-ordered Map sha -> commit.
UndefinedLog == [defined |-> FALSE]

LogEntries == [sha : Sha, previousSha : OptSha, nextSha : OptSha]

RECURSIVE SeqsUpTo(_, _)
SeqsUpTo(S, n) ==
    IF n = 0 THEN {<<>>}
    ELSE LET shorter == SeqsUpTo(S, n - 1)
         IN  shorter \cup {Append(s, e) : s \in {t \in shorter : Len(t) = n - 1}, e \in S}

DistinctShas(s) == \A i, j \in 1..Len(s) : i # j => s[i].sha # s[j].sha

CommitMaps == {s \in SeqsUpTo(LogEntries, MaxLogLen) : DistinctShas(s)}

GitLogs == [defined : {TRUE}, truncated : BOOLEAN, sha : OptSha, commits : CommitMaps]

\* log.commits.get(sha): the index of the entry, 0 when there is none
MapGet(commits, sha) ==
    IF \E i \in 1..Len(commits) : commits[i].sha = sha
    THEN CHOOSE i \in 1..Len(commits) : commits[i].sha = sha
    ELSE 0

\* Iterables.first(log.commits.values())
MapFirst(commits) == IF Len(commits) = 0 THEN 0 ELSE 1

\* GitLogCommit
LogCommits ==
    [sha : Sha, previousSha : OptSha, nextSha : OptSha, status : {"M", "D"},
     workingFileName : {"", WorkingFileName}, isMerge : BOOLEAN, type : {"branch"}]

ArgCommits ==
    [sha : Sha \cup {UncommittedSha}, previousSha : OptSha, nextSha : OptSha,
     status : {"M", "D"}, workingFileName : {"", WorkingFileName},
     isMerge : BOOLEAN, type : {"branch", "stash"}]

\* ------------------------------------------------------------------ key commands
UnboundKey == [kind |-> "undefined"]
LazyKey == [kind |-> "function"]
KeyNoopCommand == [kind |-> "noop"]
KeyCommandQuickPickItem(sha, log, goBack) ==
    [kind |-> "command", command |-> "ShowQuickCommitFileDetails",
     sha |-> sha, fileLog |-> log, goBackCommand |-> goBack]

\* ------------------------------------------------------------------ state
VARIABLES
    pc,               \* where show() stands
    commit,           \* parameter commit (reassigned at line 58)
    stash,            \* const stash (line 48)
    wasUncommitted,   \* const isUncommitted (line 52)
    fileLog,          \* parameter fileLog
    commitInLog,      \* commit is the very object fileLog.commits holds for its sha
    goBackCommand,    \* parameter goBackCommand is given
    items,            \* const items
    previousCommand,  \* let previousCommand
    nextCommand,      \* let nextCommand
    scope,            \* the keyboard scope begun at line 269
    scopesBegun,      \* calls of Keyboard.instance.beginScope
    keyResult,        \* what the last ',' or '.' press resolved to, while the picker is open
    quickPick,        \* the promise of window.showQuickPick (line 275)
    pick              \* the awaited quick pick result, returned at line 286

showVars == <<pc, commit, stash, wasUncommitted, fileLog, commitInLog, goBackCommand,
              items, previousCommand, nextCommand, scope, scopesBegun, keyResult,
              quickPick, pick>>

\* DiffLineWithPreviousCommand.execute
VARIABLES
    diffPc,           \* where execute() stands
    hasDocument,      \* uri is no Uri and editor.document is (un)defined; TRUE if uri is given
    line,             \* parameter line (reassigned at lines 23, 38, 45)
    diffCommit,       \* parameter commit (reassigned at lines 34, 37, 44)
    gitUri,           \* const gitUri: its offset and sha
    blame,            \* const blame, the answer of getBlameForLine
    queries,          \* the git queries made so far
    dispatched,       \* the host commands dispatched so far, in order
    completed,        \* the dispatched host commands that have completed
    messages          \* the warning and error messages shown

diffVars == <<diffPc, hasDocument, line, diffCommit, gitUri, blame, queries, dispatched,
              completed, messages>>

vars == <<showVars, diffVars>>

\* ------------------------------------------------------------------ items
Item(label, sha, fileName, resource) ==
    [label |-> label, sha |-> sha, fileName |-> fileName, resource |-> resource]

GoBackItem == Item("go back", Undefined, "", "")

OpenCommitFileCommandQuickPickItem(c) == Item("Open File", Undefined, FileName, "")

\* Faulty variant: the deleted file's revision is taken from the commit that deleted it
OpenRevisionOfCommitItself(c) == Item("Open Revision", c.sha, FileName, "")

OpenCommitFileRevisionCommandQuickPickItem(c) ==
    IF c.status = "D"
    THEN Item("Open Revision", c.previousSha, PreviousFileName, "")
    ELSE Item("Open Revision", c.sha, FileName, "")

When(cond, s) == IF cond THEN s ELSE <<>>

\* Faulty variant: the 'revision' remote entry is pushed for a stash too
BuildItemsRevisionForStash(c, st, remotes, goBack) ==
    LET working == c.workingFileName # ""
        openFile == working /\ c.status # "D"
    IN  When(goBack, <<GoBackItem>>)
        \o When(~st, <<Item("Show Commit Details", c.sha, FileName, "")>>
                     \o When(c.previousSha # Undefined,
                             <<Item("Compare File with Previous Revision", c.sha, FileName, "")>>))
        \o When(working,
                <<Item("Compare File with Working Revision", c.sha, c.workingFileName, "")>>)
        \o When(~st, <<Item("Copy Commit ID to Clipboard", c.sha, "", ""),
                       Item("Copy Message to Clipboard", c.sha, "", "")>>)
        \o When(openFile, <<Item("Open File", Undefined, FileName, "")>>)
        \o <<OpenCommitFileRevisionCommandQuickPickItem(c)>>
        \o When(Len(remotes) > 0,
                When(openFile, <<Item("Open in Remote", Undefined, c.workingFileName, "file")>>)
                \o <<Item("Open in Remote", c.sha, FileName, "revision")>>)
        \o When(working, <<Item("Show File History", Undefined, c.workingFileName, "")>>)
        \o When(~st, <<Item(IF working THEN "Show Previous File History"
                                       ELSE "Show File History", c.sha, FileName, "")>>)

\* lines 61-173: the entries of the picker, in order
BuildItems(c, st, remotes, goBack) ==
    LET working == c.workingFileName # ""
        openFile == working /\ c.status # "D"
    IN  When(goBack, <<GoBackItem>>)
        \o When(~st, <<Item("Show Commit Details", c.sha, FileName, "")>>
                     \o When(c.previousSha # Undefined,
                             <<Item("Compare File with Previous Revision", c.sha, FileName, "")>>))
        \o When(working,
                <<Item("Compare File with Working Revision", c.sha, c.workingFileName, "")>>)
        \o When(~st, <<Item("Copy Commit ID to Clipboard", c.sha, "", ""),
                       Item("Copy Message to Clipboard", c.sha, "", "")>>)
        \o When(openFile, <<OpenCommitFileCommandQuickPickItem(c)>>)
        \o <<OpenCommitFileRevisionCommandQuickPickItem(c)>>
        \o When(Len(remotes) > 0,
                When(openFile, <<Item("Open in Remote", Undefined, c.workingFileName, "file")>>)
                \o When(~st, <<Item("Open in Remote", c.sha, FileName, "revision")>>))
        \o When(working, <<Item("Show File History", Undefined, c.workingFileName, "")>>)
        \o When(~st, <<Item(IF working THEN "Show Previous File History"
                                       ELSE "Show File History", c.sha, FileName, "")>>)

\* line 127: .filter(r => r.provider !== undefined)
RECURSIVE FilterProvider(_)
FilterProvider(rs) ==
    IF rs = <<>> THEN <<>>
    ELSE When(Head(rs), <<Head(rs)>>) \o FilterProvider(Tail(rs))

RemoteLists == {<<>>, <<FALSE>>, <<TRUE>>, <<FALSE, TRUE>>}

\* line 179
FullHistory(log) == log.defined /\ ~log.truncated /\ log.sha = Undefined

\* lines 175-267
PreviousKey(c, st, log, goBack) ==
    IF st THEN UnboundKey
    ELSE IF FullHistory(log)
         THEN IF c.previousSha = Undefined THEN UnboundKey
              ELSE KeyCommandQuickPickItem(c.previousSha, log, goBack)
         ELSE LazyKey

\* Faulty variant: '.' is bound without looking at commit.nextSha
NextKeyAlwaysBound(c, st, log, goBack) ==
    IF st THEN UnboundKey
    ELSE IF FullHistory(log)
         THEN KeyCommandQuickPickItem(c.nextSha, log, goBack)
         ELSE LazyKey

NextKey(c, st, log, goBack) ==
    IF st THEN UnboundKey
    ELSE IF FullHistory(log)
         THEN IF c.nextSha = Undefined THEN UnboundKey
              ELSE KeyCommandQuickPickItem(c.nextSha, log, goBack)
         ELSE LazyKey

NoScope == [state |-> "none"]
DisposedScope == [state |-> "disposed"]
\* key: the key pressed; command: what it resolved to; queried: git was asked;
\* found: the sha of the commit git.findNextCommit answered with
NoKey == [key |-> "", command |-> UnboundKey, queried |-> FALSE, found |-> Undefined]

\* ------------------------------------------------------------------ show()
\* The commit object is the one the file log holds only if both agree.
CanAlias(c, log) ==
    /\ log.defined
    /\ MapGet(log.commits, c.sha) # 0
    /\ LET e == log.commits[MapGet(log.commits, c.sha)]
       IN  e.previousSha = c.previousSha /\ e.nextSha = c.nextSha

\* The arguments of show() are drawn from two classes.  The entries of the picker
\* never read nextSha, isMerge or fileLog, and the key commands never read status,
\* workingFileName or the remotes: one class varies the first group over every
\* file log, the other varies the second group (and the uncommitted case).
PlainCommit(d) ==
    /\ ~isUncommitted(d.sha)
    /\ d.status = "M"
    /\ d.workingFileName = WorkingFileName

ContentCommit(d) ==
    /\ d.nextSha = Undefined
    /\ ~d.isMerge
    /\ (isUncommitted(d.sha) => (d.previousSha = Undefined /\ d.status = "M"))

NavigationInputs ==
    {<<c, log, FALSE>> : c \in {d \in ArgCommits : PlainCommit(d)},
                         log \in GitLogs \cup {UndefinedLog}}

ContentLogs(d) ==
    {UndefinedLog}
    \cup {l \in GitLogs : FullHistory(l) /\ (isUncommitted(d.sha) => (l.commits = <<>>))}

ContentInputs ==
    {<<c[1], c[2], goBack>> :
        c \in {e \in ArgCommits \X (GitLogs \cup {UndefinedLog}) :
                  ContentCommit(e[1]) /\ e[2] \in ContentLogs(e[1])},
        goBack \in BOOLEAN}

ShowStart ==
    /\ pc = "start"
    /\ \E in \in NavigationInputs \cup ContentInputs :
          /\ commit = in[1]
          /\ fileLog = in[2]
          /\ goBackCommand = in[3]
    /\ commitInLog \in {b \in BOOLEAN : b => CanAlias(commit, fileLog)}
    /\ stash = FALSE
    /\ wasUncommitted = FALSE
    /\ items = <<>>
    /\ previousCommand = UnboundKey
    /\ nextCommand = UnboundKey
    /\ scope = NoScope
    /\ scopesBegun = 0
    /\ keyResult = NoKey
    /\ quickPick = "none"
    /\ pick = Undefined

\* execute() is not running
DiffIdle ==
    /\ diffPc = "idle"
    /\ hasDocument = TRUE
    /\ line = 0
    /\ diffCommit = [defined |-> FALSE]
    /\ gitUri = [offset |-> 0, sha |-> Undefined]
    /\ blame = [defined |-> FALSE]
    /\ queries = <<>>
    /\ dispatched = <<>>
    /\ completed = {}
    /\ messages = <<>>

Init == ShowStart /\ DiffIdle

\* Faulty variant: the picker is built from the uncommitted commit when no commit is logged
ResolveCommitKeepsUncommitted ==
    /\ pc = "start"
    /\ stash' = (commit.type = "stash")
    /\ wasUncommitted' = isUncommitted(commit.sha)
    /\ IF isUncommitted(commit.sha)
       THEN \/ /\ pc' = "build"
               /\ UNCHANGED <<commit, commitInLog>>
            \/ /\ \E c \in LogCommits : commit' = c
               /\ commitInLog' = FALSE
               /\ pc' = "build"
       ELSE /\ pc' = "build"
            /\ UNCHANGED <<commit, commitInLog>>
    /\ UNCHANGED <<fileLog, goBackCommand, items, previousCommand, nextCommand,
                   scope, scopesBegun, keyResult, pick, quickPick,
                   diffVars>>

\* lines 46-59
ResolveCommit ==
    /\ pc = "start"
    /\ stash' = (commit.type = "stash")
    /\ wasUncommitted' = isUncommitted(commit.sha)
    /\ IF isUncommitted(commit.sha)
       THEN \/ /\ pc' = "returned"          \* c === undefined
               /\ UNCHANGED <<commit, commitInLog>>
            \/ /\ \E c \in LogCommits : commit' = c
               /\ commitInLog' = FALSE
               /\ pc' = "build"
       ELSE /\ pc' = "build"
            /\ UNCHANGED <<commit, commitInLog>>
    /\ UNCHANGED <<fileLog, goBackCommand, items, previousCommand, nextCommand,
                   scope, scopesBegun, keyResult, pick, quickPick,
                   diffVars>>

\* lines 61-267
Build ==
    /\ pc = "build"
    /\ \E rs \in RemoteLists, branch \in BOOLEAN :
          LET remotes == FilterProvider(rs)
              needsBranch == Len(remotes) > 0 /\ commit.workingFileName # ""
                             /\ commit.status # "D"
          IN  IF needsBranch /\ ~branch
              THEN /\ pc' = "threw"            \* branch!.name of undefined
                   /\ UNCHANGED <<items, previousCommand, nextCommand>>
              ELSE /\ items' = BuildItems(commit, stash, remotes, goBackCommand)
                   /\ previousCommand' = PreviousKey(commit, stash, fileLog, goBackCommand)
                   /\ nextCommand' = NextKey(commit, stash, fileLog, goBackCommand)
                   /\ pc' = "beginScope"
    /\ UNCHANGED <<commit, stash, wasUncommitted, fileLog, commitInLog, goBackCommand,
                   scope, scopesBegun, keyResult, pick, quickPick,
                   diffVars>>

\* lines 269-273
BeginScope ==
    /\ pc = "beginScope"
    /\ scope' = [state |-> "active", left |-> goBackCommand,
                 comma |-> previousCommand, dot |-> nextCommand, right |-> Undefined]
    /\ scopesBegun' = scopesBegun + 1
    /\ pc' = "showQuickPick"
    /\ UNCHANGED <<commit, stash, wasUncommitted, fileLog, commitInLog, goBackCommand,
                   items, previousCommand, nextCommand, keyResult, pick, quickPick,
                   diffVars>>

\* line 275: window.showQuickPick is called
ShowQuickPick ==
    /\ pc = "showQuickPick"
    /\ pc' = "open"
    /\ quickPick' = "open"
    /\ UNCHANGED <<commit, stash, wasUncommitted, fileLog, commitInLog, goBackCommand,
                   items, previousCommand, nextCommand, scope, scopesBegun, keyResult, pick,
                   diffVars>>

Selectable(its) == {i \in 1..Len(its) : i <= MaxSelect}

\* lines 279-281: onDidSelectItem
SelectItem ==
    /\ pc = "open"
    /\ \E i \in Selectable(items) : scope' = [scope EXCEPT !.right = i]
    /\ UNCHANGED <<pc, commit, stash, wasUncommitted, fileLog, commitInLog, goBackCommand,
                   items, previousCommand, nextCommand, scopesBegun, keyResult, pick, quickPick,
                   diffVars>>

\* log && log.commits.get(commit.sha), as an index into log.commits (0: undefined)
CachedEntry(log, sha) == IF log.defined THEN MapGet(log.commits, sha) ELSE 0

\* Faulty variant: an entry without previousSha is trusted
PreviousStaleOnlyIfMissing(log, sha) == CachedEntry(log, sha) = 0

\* line 208
PreviousStale(log, sha) ==
    \/ CachedEntry(log, sha) = 0
    \/ log.commits[CachedEntry(log, sha)].previousSha = Undefined

\* Faulty variant: an entry without nextSha is trusted
NextStaleOnlyIfMissing(log, sha) == CachedEntry(log, sha) = 0

\* line 242
NextStale(log, sha) ==
    \/ CachedEntry(log, sha) = 0
    \/ log.commits[CachedEntry(log, sha)].nextSha = Undefined

\* Faulty variant: the check of line 225 is left out for a commit that was found
PreviousAfterQueryUnchecked(c, answer, goBack) ==
    IF ~answer.defined THEN KeyNoopCommand
    ELSE LET found == MapGet(answer.commits, c.sha)
             i == IF found = 0 /\ c.isMerge THEN MapFirst(answer.commits) ELSE found
             log == IF i # 0 THEN [answer EXCEPT !.commits[i].nextSha = c.nextSha]
                    ELSE answer
         IN  IF i = 0
             THEN KeyNoopCommand
             ELSE KeyCommandQuickPickItem(log.commits[i].previousSha, log, goBack)

\* lines 209-234, given the answer of git.getLogForFile
PreviousAfterQuery(c, answer, goBack) ==
    IF ~answer.defined THEN KeyNoopCommand
    ELSE LET found == MapGet(answer.commits, c.sha)
             i == IF found = 0 /\ c.isMerge THEN MapFirst(answer.commits) ELSE found
             log == IF i # 0 THEN [answer EXCEPT !.commits[i].nextSha = c.nextSha]
                    ELSE answer
         IN  IF i = 0 \/ log.commits[i].previousSha = Undefined
             THEN KeyNoopCommand
             ELSE KeyCommandQuickPickItem(log.commits[i].previousSha, log, goBack)

\* what git.getLogForFile(repoPath, fsPath, ref, ...) can answer with
LogsOf(ref) == {l \in GitLogs : l.sha = ref}

\* the key ',' : lines 180-189 (fixed) and 203-235 (lazy)
PressPrevious ==
    /\ pc = "open"
    /\ IF scope.comma.kind # "function"
       THEN keyResult' = [key |-> ",", command |-> scope.comma, queried |-> FALSE, found |-> Undefined]
       ELSE IF ~PreviousStale(fileLog, commit.sha)
            THEN keyResult' =
                   [key |-> ",", queried |-> FALSE, found |-> Undefined,
                    command |-> KeyCommandQuickPickItem(
                        fileLog.commits[CachedEntry(fileLog, commit.sha)].previousSha,
                        fileLog, goBackCommand)]
            ELSE \E answer \in LogsOf(commit.sha) \cup {UndefinedLog} :
                    keyResult' = [key |-> ",", queried |-> TRUE, found |-> Undefined,
                                  command |-> PreviousAfterQuery(commit, answer, goBackCommand)]
    /\ UNCHANGED <<pc, commit, stash, wasUncommitted, fileLog, commitInLog, goBackCommand,
                   items, previousCommand, nextCommand, scope, scopesBegun, pick, quickPick,
                   diffVars>>

\* the key '.' : lines 191-200 (fixed) and 237-265 (lazy)
PressNext ==
    /\ pc = "open"
    /\ IF scope.dot.kind # "function"
       THEN /\ keyResult' = [key |-> ".", command |-> scope.dot, queried |-> FALSE, found |-> Undefined]
            /\ UNCHANGED <<commit, fileLog>>
       ELSE IF ~NextStale(fileLog, commit.sha)
            THEN /\ keyResult' =
                      [key |-> ".", queried |-> FALSE, found |-> Undefined,
                       command |-> KeyCommandQuickPickItem(
                           fileLog.commits[CachedEntry(fileLog, commit.sha)].nextSha,
                           fileLog, goBackCommand)]
                 /\ UNCHANGED <<commit, fileLog>>
            ELSE \E next \in OptSha :              \* git.findNextCommit: undefined or a commit
                    IF next # Undefined /\ next # commit.sha
                    THEN /\ commit' = [commit EXCEPT !.nextSha = next]
                         /\ fileLog' = IF commitInLog
                                       THEN [fileLog EXCEPT
                                               !.commits[CachedEntry(fileLog, commit.sha)].nextSha = next]
                                       ELSE fileLog
                         /\ keyResult' = [key |-> ".", queried |-> TRUE, found |-> next,
                                          command |-> KeyCommandQuickPickItem(
                                              next, UndefinedLog, goBackCommand)]
                    ELSE /\ keyResult' = [key |-> ".", queried |-> TRUE, found |-> next,
                                          command |-> KeyNoopCommand]
                         /\ UNCHANGED <<commit, fileLog>>
    /\ UNCHANGED <<pc, stash, wasUncommitted, commitInLog, goBackCommand,
                   items, previousCommand, nextCommand, scope, scopesBegun, pick, quickPick,
                   diffVars>>

\* The entry the user can accept: the one last reported to onDidSelectItem.
Highlighted == IF scope.right = Undefined THEN Selectable(items) ELSE {scope.right}

\* line 275: the promise of showQuickPick resolves (an item, or undefined)
QuickPickResolves ==
    /\ pc = "open"
    /\ \E i \in {Undefined} \cup Highlighted : pick' = i
    /\ pc' = "picked"
    /\ quickPick' = "resolved"
    /\ keyResult' = NoKey
    /\ UNCHANGED <<commit, stash, wasUncommitted, fileLog, commitInLog, goBackCommand,
                   items, previousCommand, nextCommand, scope, scopesBegun,
                   diffVars>>

\* line 275: the promise of showQuickPick rejects; show rejects with it
QuickPickRejects ==
    /\ pc = "open"
    /\ pc' = "threw"
    /\ quickPick' = "rejected"
    /\ keyResult' = NoKey
    /\ UNCHANGED <<commit, stash, wasUncommitted, fileLog, commitInLog, goBackCommand,
                   items, previousCommand, nextCommand, scope, scopesBegun, pick,
                   diffVars>>

\* Faulty variant: the scope is not disposed
DisposeScopeForgotten ==
    /\ pc = "picked"
    /\ pc' = "disposed"
    /\ UNCHANGED <<commit, stash, wasUncommitted, fileLog, commitInLog, goBackCommand,
                   items, previousCommand, nextCommand, scope, scopesBegun, keyResult, pick,
                   quickPick, diffVars>>

\* line 284
DisposeScope ==
    /\ pc = "picked"
    /\ scope' = DisposedScope
    /\ pc' = "disposed"
    /\ UNCHANGED <<commit, stash, wasUncommitted, fileLog, commitInLog, goBackCommand,
                   items, previousCommand, nextCommand, scopesBegun, keyResult, pick, quickPick,
                   diffVars>>

\* line 286
Return ==
    /\ pc = "disposed"
    /\ pc' = "returned"
    /\ UNCHANGED <<commit, stash, wasUncommitted, fileLog, commitInLog, goBackCommand,
                   items, previousCommand, nextCommand, scope, scopesBegun, keyResult, pick, quickPick,
                   diffVars>>

Next ==
    \/ ResolveCommit
    \/ Build
    \/ BeginScope
    \/ ShowQuickPick
    \/ SelectItem
    \/ PressPrevious
    \/ PressNext
    \/ QuickPickResolves
    \/ QuickPickRejects
    \/ DisposeScope
    \/ Return

Spec == Init /\ [][Next]_vars

\* ------------------------------------------------------------------ execute()
GitCommit(sha) == [defined |-> TRUE, sha |-> sha, previousSha |-> Undefined]

GitCommits == [defined : {TRUE}, sha : Sha \cup {UncommittedSha}, previousSha : OptSha]

Lines == 0..MaxLine

\* what git.getBlameForLine can resolve to: the commit of the line and the line
Blames == [defined : {TRUE}, commit : GitCommits, line : Lines]

Dispatch(command, sha, ln) == [command |-> command, sha |-> sha, line |-> ln]

\* show() is not running
ShowIdle ==
    /\ pc = "idle"
    /\ commit = [sha |-> Undefined]
    /\ fileLog = UndefinedLog
    /\ commitInLog = FALSE
    /\ goBackCommand = FALSE
    /\ stash = FALSE
    /\ wasUncommitted = FALSE
    /\ items = <<>>
    /\ previousCommand = UnboundKey
    /\ nextCommand = UnboundKey
    /\ scope = NoScope
    /\ scopesBegun = 0
    /\ keyResult = NoKey
    /\ quickPick = "none"
    /\ pick = Undefined

DiffStart ==
    /\ diffPc = "start"
    /\ hasDocument \in BOOLEAN
    /\ line \in Lines                  \* 0: the argument is undefined (or 0)
    /\ diffCommit \in GitCommits \cup {[defined |-> FALSE]}
    /\ gitUri \in [offset : Lines, sha : OptSha]
    /\ blame = [defined |-> FALSE]
    /\ queries = <<>>
    /\ dispatched = <<>>
    /\ completed = {}
    /\ messages = <<>>

DiffInit == ShowIdle /\ DiffStart

\* Faulty variant: a negative blame line is not turned away
EnterAnyBlameLine ==
    /\ diffPc = "start"
    /\ IF ~hasDocument
       THEN /\ diffPc' = "returned"
            /\ UNCHANGED <<line, queries>>
       ELSE \E editorLine \in Lines :
               /\ line' = IF line # 0 THEN line ELSE editorLine
               /\ IF ~diffCommit.defined \/ isUncommitted(diffCommit.sha)
                  THEN /\ diffPc' = "getBlameForLine"
                       /\ queries' = Append(queries, "getBlameForLine")
                  ELSE /\ diffPc' = "getVersionedFile"
                       /\ queries' = Append(queries, "getVersionedFile")
    /\ UNCHANGED <<hasDocument, diffCommit, gitUri, blame, dispatched, completed, messages,
                   showVars>>

\* lines 18-28
Enter ==
    /\ diffPc = "start"
    /\ IF ~hasDocument
       THEN /\ diffPc' = "returned"
            /\ UNCHANGED <<line, queries>>
       ELSE \E editorLine \in Lines :
               LET ln == IF line # 0 THEN line ELSE editorLine
               IN  /\ line' = ln
                   /\ IF ~diffCommit.defined \/ isUncommitted(diffCommit.sha)
                      THEN IF ln - gitUri.offset < 0
                           THEN /\ diffPc' = "returned"
                                /\ UNCHANGED queries
                           ELSE /\ diffPc' = "getBlameForLine"
                                /\ queries' = Append(queries, "getBlameForLine")
                      ELSE /\ diffPc' = "getVersionedFile"
                           /\ queries' = Append(queries, "getVersionedFile")
    /\ UNCHANGED <<hasDocument, diffCommit, gitUri, blame, dispatched, completed, messages,
                   showVars>>

\* lines 31-52, on the answer of git.getBlameForLine
BlameAnswers ==
    /\ diffPc = "getBlameForLine"
    /\ \/ /\ messages' = Append(messages, "error")           \* it throws
          /\ diffPc' = "returned"
          /\ UNCHANGED <<line, diffCommit, blame, queries, dispatched>>
       \/ /\ messages' = Append(messages, "warning")         \* !blame
          /\ diffPc' = "returned"
          /\ UNCHANGED <<line, diffCommit, blame, queries, dispatched>>
       \/ \E b \in Blames :
             LET same == gitUri.sha = b.commit.sha
                 c == IF same THEN GitCommit(b.commit.previousSha) ELSE b.commit
                 blamed == b.line + 1 + gitUri.offset
             IN  /\ blame' = b
                 /\ UNCHANGED messages
                 /\ IF isUncommitted(c.sha)
                    THEN /\ diffCommit' = GitCommit(c.previousSha)
                         /\ line' = blamed
                         /\ dispatched' = Append(dispatched,
                                Dispatch("DiffWithWorking", c.previousSha, blamed))
                         /\ diffPc' = "diffWithWorking"
                         /\ UNCHANGED queries
                    ELSE /\ diffCommit' = c
                         /\ line' = IF same THEN blamed ELSE line
                         /\ queries' = Append(queries, "getVersionedFile")
                         /\ diffPc' = "getVersionedFile"
                         /\ UNCHANGED dispatched
    /\ UNCHANGED <<hasDocument, gitUri, completed, showVars>>

\* line 46: the returned promise of DiffWithWorking settles (outside the try's reach)
DiffWithWorkingSettles ==
    /\ diffPc = "diffWithWorking"
    /\ \/ /\ completed' = completed \cup {"DiffWithWorking"}
          /\ diffPc' = "returned"
       \/ /\ diffPc' = "threw"
          /\ UNCHANGED completed
    /\ UNCHANGED <<hasDocument, line, diffCommit, gitUri, blame, queries, dispatched,
                   messages, showVars>>

\* Faulty variant: RevealLine is dispatched without awaiting the built-in Diff
VersionedFileAnswersNoAwait ==
    /\ diffPc = "getVersionedFile"
    /\ \/ /\ dispatched' = dispatched \o <<Dispatch("vscode.diff", diffCommit.sha, 0),
                                           Dispatch("revealLine", Undefined, line)>>
          /\ diffPc' = "revealLine"
          /\ UNCHANGED messages
       \/ /\ messages' = Append(messages, "error")
          /\ diffPc' = "returned"
          /\ UNCHANGED dispatched
    /\ UNCHANGED <<hasDocument, line, diffCommit, gitUri, blame, queries, completed,
                   showVars>>

\* lines 56-60 and 63-65, on the answers of git.getVersionedFile
VersionedFileAnswers ==
    /\ diffPc = "getVersionedFile"
    /\ \/ /\ dispatched' = Append(dispatched, Dispatch("vscode.diff", diffCommit.sha, 0))
          /\ diffPc' = "diff"
          /\ UNCHANGED messages
       \/ /\ messages' = Append(messages, "error")
          /\ diffPc' = "returned"
          /\ UNCHANGED dispatched
    /\ UNCHANGED <<hasDocument, line, diffCommit, gitUri, blame, queries, completed,
                   showVars>>

\* lines 60-61 and 63-65: the built-in Diff settles
DiffSettles ==
    /\ diffPc = "diff"
    /\ \/ /\ completed' = completed \cup {"vscode.diff"}
          /\ dispatched' = Append(dispatched, Dispatch("revealLine", Undefined, line))
          /\ diffPc' = "revealLine"
          /\ UNCHANGED messages
       \/ /\ messages' = Append(messages, "error")
          /\ diffPc' = "returned"
          /\ UNCHANGED <<dispatched, completed>>
    /\ UNCHANGED <<hasDocument, line, diffCommit, gitUri, blame, queries, showVars>>

\* lines 61 and 63-65: RevealLine settles
RevealLineSettles ==
    /\ diffPc = "revealLine"
    /\ \/ /\ completed' = completed \cup {"revealLine"}
          /\ UNCHANGED messages
       \/ /\ messages' = Append(messages, "error")
          /\ UNCHANGED completed
    /\ diffPc' = "returned"
    /\ UNCHANGED <<hasDocument, line, diffCommit, gitUri, blame, queries, dispatched,
                   showVars>>

DiffNext ==
    \/ Enter
    \/ BlameAnswers
    \/ DiffWithWorkingSettles
    \/ VersionedFileAnswers
    \/ DiffSettles
    \/ RevealLineSettles

DiffSpec == DiffInit /\ [][DiffNext]_vars

\* ------------------------------------------------------------------ properties
\* The statements below describe the arguments and results in their own words:
\* they use none of the operators that model the code.
ShowCommand(sha, log) ==
    [kind |-> "command", command |-> "ShowQuickCommitFileDetails",
     sha |-> sha, fileLog |-> log, goBackCommand |-> goBackCommand]

HasFullHistory == fileLog.defined /\ ~fileLog.truncated /\ fileLog.sha = Undefined

\* the entries the cached file log holds for commit.sha
CachedEntries ==
    IF fileLog.defined
    THEN {i \in 1..Len(fileLog.commits) : fileLog.commits[i].sha = commit.sha}
    ELSE {}

Labels == {items[i].label : i \in 1..Len(items)}
Resources == {items[i].resource : i \in 1..Len(items)}

\* C1: with a lazily resolved ',', git.getLogForFile is asked if and only if the
\* cached file log has no entry for commit.sha or the entry has no previousSha;
\* otherwise the key resolves, without a query, to ShowQuickCommitFileDetails on the
\* entry's previousSha, carrying the cached file log.
C1_PreviousRequeriesIffStale ==
    (pc = "open" /\ ~stash /\ ~HasFullHistory /\ keyResult.key = ",") =>
        LET trusted == {i \in CachedEntries : fileLog.commits[i].previousSha # Undefined}
        IN  /\ keyResult.queried <=> (trusted = {})
            /\ \A i \in trusted :
                  keyResult.command = ShowCommand(fileLog.commits[i].previousSha, fileLog)

C1_Witness ==
    /\ pc = "open" /\ ~stash /\ ~HasFullHistory
    /\ keyResult.key = "," /\ ~keyResult.queried
    /\ keyResult.command.kind = "command"
    /\ fileLog.truncated

\* C2: with a lazily resolved '.', git.findNextCommit is asked if and only if the
\* cached file log has no entry for commit.sha or the entry has no nextSha; after a
\* query the key is KeyNoopCommand when nothing was found or the found sha is
\* commit.sha, and otherwise ShowQuickCommitFileDetails on the found sha with no
\* file log.
C2_NextStep ==
    (/\ pc = "open" /\ pc' = "open" /\ scope' = scope
     /\ keyResult'.key = "." /\ ~stash /\ ~HasFullHistory) =>
        LET trusted == {i \in CachedEntries : fileLog.commits[i].nextSha # Undefined}
            found == keyResult'.found
        IN  /\ keyResult'.queried <=> (trusted = {})
            /\ keyResult'.queried =>
                  keyResult'.command =
                      IF found = Undefined \/ found = commit.sha
                      THEN [kind |-> "noop"]
                      ELSE ShowCommand(found, [defined |-> FALSE])

\* C2, over every step that resolves '.': the query is made exactly on a stale entry
\* and its answer decides between KeyNoopCommand and the found sha.
C2_NextQueriesIffStale == [][C2_NextStep]_vars

C2_Witness ==
    /\ pc = "open" /\ ~stash /\ ~HasFullHistory
    /\ keyResult.key = "." /\ keyResult.queried
    /\ keyResult.command.kind = "command"
    /\ fileLog.defined

\* C3: with the full history, ',' and '.' are fixed when the scope begins: ',' is
\* bound exactly when commit.previousSha is defined and '.' exactly when
\* commit.nextSha is defined, each to ShowQuickCommitFileDetails on that sha with the
\* same file log, and pressing them asks git nothing.
C3_FullHistoryKeysFixed ==
    (scope.state = "active" /\ ~stash /\ HasFullHistory) =>
        /\ scope.comma = IF commit.previousSha = Undefined THEN [kind |-> "undefined"]
                         ELSE ShowCommand(commit.previousSha, fileLog)
        /\ scope.dot = IF commit.nextSha = Undefined THEN [kind |-> "undefined"]
                       ELSE ShowCommand(commit.nextSha, fileLog)
        /\ keyResult.key = "," => (~keyResult.queried /\ keyResult.command = scope.comma)
        /\ keyResult.key = "." => (~keyResult.queried /\ keyResult.command = scope.dot)

C3_Witness ==
    /\ pc = "open" /\ ~stash /\ HasFullHistory
    /\ keyResult.key = "." /\ keyResult.command.kind = "command"
    /\ scope.comma.kind = "undefined"

\* C5: for a stash the picker holds none of the commit-specific entries and both ','
\* and '.' are unbound in the keyboard scope.
CommitSpecificLabels ==
    {"Show Commit Details", "Compare File with Previous Revision",
     "Copy Commit ID to Clipboard", "Copy Message to Clipboard",
     "Show Previous File History"}

C5_StashHasNoCommitActions ==
    (stash /\ items # <<>>) =>
        /\ Labels \cap CommitSpecificLabels = {}
        /\ "revision" \notin Resources
        /\ previousCommand = [kind |-> "undefined"]
        /\ nextCommand = [kind |-> "undefined"]
        /\ scope.state = "active" =>
              (scope.comma = [kind |-> "undefined"] /\ scope.dot = [kind |-> "undefined"])

C5_Witness ==
    /\ stash /\ pc = "open" /\ "file" \in Resources
    /\ keyResult.key = "," /\ keyResult.command = [kind |-> "undefined"]

\* C6: for a deleted file (status 'D') the picker offers neither 'Open File' nor the
\* 'file' remote entry and its one 'Open Revision' entry opens previousFileName at
\* previousSha; for any other status 'Open Revision' opens the file at the commit.
C6_DeletedOpensPreviousRevision ==
    items # <<>> =>
        LET revisions == {i \in 1..Len(items) : items[i].label = "Open Revision"}
        IN  /\ Cardinality(revisions) = 1
            /\ \A i \in revisions :
                  IF commit.status = "D"
                  THEN /\ items[i].sha = commit.previousSha
                       /\ items[i].fileName = PreviousFileName
                       /\ "Open File" \notin Labels
                       /\ "file" \notin Resources
                  ELSE /\ items[i].sha = commit.sha
                       /\ items[i].fileName = FileName

C6_Witness ==
    /\ items # <<>> /\ commit.status = "D" /\ commit.workingFileName # ""
    /\ commit.previousSha # Undefined /\ commit.previousSha # commit.sha
    /\ "revision" \in Resources

\* C7: an uncommitted commit is replaced by the last logged commit of the file before
\* any entry is built; when there is none, show returns undefined with no keyboard
\* scope begun and no quick pick shown.
C7_UncommittedIsReplaced ==
    /\ (pc # "start" /\ isUncommitted(commit.sha)) =>
          /\ wasUncommitted
          /\ pc = "returned"
          /\ items = <<>>
          /\ scopesBegun = 0
          /\ scope = [state |-> "none"]
          /\ quickPick = "none"
          /\ pick = Undefined
    /\ (wasUncommitted /\ pc # "returned") => ~isUncommitted(commit.sha)
    /\ \A i \in 1..Len(items) : items[i].sha \in {Undefined, commit.sha, commit.previousSha}

C7_Witness == pc = "returned" /\ isUncommitted(commit.sha) /\ wasUncommitted

\* C9: every ShowQuickCommitFileDetails that ',' or '.' is bound to or resolves to
\* targets a defined sha; otherwise the key is KeyNoopCommand or unbound.
KeyCommands ==
    {previousCommand, nextCommand, keyResult.command}
    \cup (IF scope.state = "active" THEN {scope.comma, scope.dot} ELSE {})

C9_NavigationTargetsDefinedSha ==
    \A k \in KeyCommands :
        /\ k.kind \in {"undefined", "function", "noop", "command"}
        /\ k.kind = "command" => k.sha \in Sha
        /\ k = keyResult.command => k.kind # "function"

C9_Witness ==
    /\ pc = "open" /\ keyResult.key = "," /\ keyResult.queried
    /\ keyResult.command.kind = "command"
    /\ commit.isMerge
    /\ \A i \in 1..Len(keyResult.command.fileLog.commits) :
          keyResult.command.fileLog.commits[i].sha # commit.sha

\* C10: a call that reaches the picker begins exactly one keyboard scope, before the
\* quick pick is shown, and disposes it after the quick pick resolved and before it
\* returns: no scope is active once show has returned.
C10_ScopeBracketsQuickPick ==
    /\ scopesBegun <= 1
    /\ quickPick # "none" => scopesBegun = 1
    /\ scope.state # "none" => scopesBegun = 1
    /\ scope.state = "disposed" => quickPick = "resolved"
    /\ pc = "disposed" => scope.state = "disposed"
    /\ pc = "returned" =>
          /\ scope.state # "active"
          /\ quickPick # "none" => (scope.state = "disposed" /\ quickPick = "resolved")

C10_Witness ==
    /\ pc = "returned" /\ scope.state = "disposed" /\ scopesBegun = 1
    /\ pick # Undefined

\* C4: a run dispatches at most one diff target.  When the blame resolved and the
\* resulting commit is uncommitted it dispatches DiffWithWorking, with the previous
\* commit and the blamed line, and neither Diff nor RevealLine; every other run that
\* succeeds dispatches Diff and, once Diff has completed, RevealLine.
BlamedUncommitted ==
    /\ blame.defined
    /\ isUncommitted(IF gitUri.sha = blame.commit.sha THEN blame.commit.previousSha
                     ELSE blame.commit.sha)

Commands(ds) == {ds[i].command : i \in 1..Len(ds)}

C4_OneDiffTarget ==
    /\ Cardinality({i \in 1..Len(dispatched) :
                      dispatched[i].command \in {"DiffWithWorking", "vscode.diff"}}) <= 1
    /\ BlamedUncommitted =>
          dispatched = <<[command |-> "DiffWithWorking", sha |-> blame.commit.previousSha,
                          line |-> blame.line + 1 + gitUri.offset]>>
    /\ "DiffWithWorking" \in Commands(dispatched) => BlamedUncommitted
    /\ "revealLine" \in Commands(dispatched) =>
          /\ Len(dispatched) = 2
          /\ dispatched[1].command = "vscode.diff"
          /\ dispatched[2] = [command |-> "revealLine", sha |-> Undefined, line |-> line]
          /\ "vscode.diff" \in completed
    /\ (diffPc = "returned" /\ messages = <<>> /\ queries # <<>> /\ ~BlamedUncommitted) =>
          (Len(dispatched) = 2 /\ "revealLine" \in Commands(dispatched))

C4_Witness ==
    /\ diffPc = "returned" /\ BlamedUncommitted
    /\ "DiffWithWorking" \in completed
    /\ blame.commit.previousSha # Undefined

\* C8: no diff command and no RevealLine on a failure path: a negative blame line
\* returns before any git query, a missing blame shows only a warning, and an
\* exception of getBlameForLine or getVersionedFile shows only an error.
C8_FailureStep ==
    /\ (/\ diffPc = "start" /\ hasDocument
        /\ ~diffCommit.defined \/ isUncommitted(diffCommit.sha)
        /\ line' - gitUri.offset < 0) =>
          (diffPc' = "returned" /\ queries' = <<>> /\ dispatched' = <<>> /\ messages' = <<>>)
    /\ (diffPc \in {"getBlameForLine", "getVersionedFile"} /\ messages' # messages) =>
          /\ diffPc' = "returned"
          /\ dispatched' = <<>>
          /\ messages' \in {<<"warning">>, <<"error">>}
          /\ messages' = <<"warning">> => diffPc = "getBlameForLine"
    /\ diffPc = "returned" => UNCHANGED <<dispatched, messages, queries>>

\* C8, over every step of execute(): a failure path shows at most its one message
\* and dispatches nothing.
C8_FailuresDispatchNothing == [][C8_FailureStep]_vars

C8_Witness ==
    /\ diffPc = "returned" /\ messages = <<"error">>
    /\ queries = <<"getBlameForLine", "getVersionedFile">>
    /\ dispatched = <<>>

====
